---- MODULE Spec2Model ----
(***************************************************************************)
(* marshmallow_polyfield.PolyField: a field whose delegate schema or field *)
(* is chosen per value by an integrator-supplied selector.                 *)
(*                                                                         *)
(* The model has one PolyField instance.  Its construction arguments, the  *)
(* host result convention (MARSHMALLOW_3) and the field's context are      *)
(* chosen in Init.  Every call of _deserialize and _serialize is one       *)
(* action; a call leaves its arguments, its outcome and the trace of the   *)
(* selector and delegate invocations it made in the history variable last, *)
(* until the caller takes the outcome (Return).  RoundTripCall is the       *)
(* caller's composition _deserialize(_serialize(value)).                   *)
(***************************************************************************)
EXTENDS Integers, Sequences, FiniteSets, TLC

VARIABLES
    many,                           \* self.many
    serialization_schema_selector,  \* self.serialization_schema_selector
    deserialization_schema_selector,\* self.deserialization_schema_selector
    MARSHMALLOW_3,                  \* module flag: load/dump return a bare result
    context,                        \* the context attribute of every long-lived object
    constructed,                    \* the field's state right after __init__
    pc,                             \* "idle" | "returned"
    last                            \* the call that has just returned

vars == <<many, serialization_schema_selector, deserialization_schema_selector,
          MARSHMALLOW_3, context, constructed, pc, last>>

(***************************************************************************)
(* Bounds                                                                  *)
(***************************************************************************)
\* longest sequence passed to a many=True field
MaxLen == 2

(***************************************************************************)
(* Python values                                                           *)
(***************************************************************************)
PyNone == [tag |-> "none"]

PyList(s) == [tag |-> "list", items |-> s]

\* an application object (what load builds and dump renders)
Obj(c, n) == [tag |-> "obj", cls |-> c, n |-> n]

\* a raw mapping {"type": t, "n": n}
Raw(t, n) == [tag |-> "raw", type |-> t, n |-> n]

\* the data a failing dump leaves in a (data, errors) pair
PyPartial == [tag |-> "partial"]

\* the (data, errors) pair of the older host convention; "" is the empty dict
Pair(d, e) == [tag |-> "pair", data |-> d, errors |-> e]

\* an instance of class c; id names a long-lived instance, "fresh" a new one
Inst(c, id) == [tag |-> "inst", cls |-> c, id |-> id]

\* the class c itself
Type(c) == [tag |-> "type", cls |-> c, id |-> "class"]

\* the enclosing mapping being loaded / the enclosing object being dumped
Parent(t) == [tag |-> "parent", type |-> t]

Objs == {Obj("Circle", 1), Obj("Circle", 0), Obj("Square", 1), Obj("Triangle", 1)}

Raws == {Raw("circle", 1), Raw("circle", 0), Raw("square", 1), Raw("triangle", 1)}

ParentData == {Parent("circle"), Parent("square")}

ParentObj == Parent("drawing")

RECURSIVE SeqsUpTo(_, _)
\* all sequences over S of length at most n
SeqsUpTo(S, n) ==
    IF n = 0 THEN {<<>>}
    ELSE LET shorter == SeqsUpTo(S, n - 1)
         IN shorter \cup {Append(s, x) : s \in {t \in shorter : Len(t) = n - 1}, x \in S}

(***************************************************************************)
(* Host framework: classes, contexts                                       *)
(***************************************************************************)
SchemaClasses == {"CircleSchema", "SquareSchema"}

FieldClasses == {"IntField"}

\* isinstance(h, type)
IsType(h) == h.tag = "type"

\* cls() succeeds; NeedsArgs is a class whose __init__ requires arguments
Constructible(c) == c # "NeedsArgs"

\* isinstance(h, Schema)
IsSchema(h) == h.tag = "inst" /\ h.cls \in SchemaClasses

\* isinstance(h, Field)
IsField(h) == h.tag = "inst" /\ h.cls \in FieldClasses

\* bool(h): None and an empty container are falsy
Truthy(h) == h.tag # "none" /\ ~(h.tag = "inst" /\ h.cls = "Empty")

\* str(type(h))
TypeStr(h) ==
    CASE h.tag = "none" -> "NoneType"
      [] h.tag = "type" -> "type"
      [] OTHER -> h.cls

Keys == {"k1", "k2"}

\* a context mapping: key -> value, 0 for a key that is not in the mapping
EmptyCtx == [k \in Keys |-> 0]

NoContext == [has |-> FALSE, map |-> EmptyCtx]

HasCtx(m) == [has |-> TRUE, map |-> m]

\* the objects that outlive a call; "self" is the PolyField
Owners == {"self", "circle1", "int1", "int2"}

\* hasattr(h, 'context') and its value.  A long-lived instance keeps its
\* context in the state; Schema() starts with an empty one; a class, None, a
\* standalone field and an unrelated object have none.
ContextOf(ctx, h) ==
    CASE h.tag = "inst" /\ h.id \in Owners -> ctx[h.id]
      [] h.tag = "inst" /\ h.id = "fresh" /\ h.cls \in SchemaClasses -> HasCtx(EmptyCtx)
      [] OTHER -> NoContext

\* hasattr(h, 'dump')
HasDump(h) == IsSchema(h)

(***************************************************************************)
(* Integrator-supplied selectors.  A selector is a configuration of the    *)
(* field; calling it either raises or returns some Python value.           *)
(***************************************************************************)
Raises(exc) == [raised |-> TRUE, ret |-> PyNone, exc |-> exc]

Returns(h) == [raised |-> FALSE, ret |-> h, exc |-> ""]

DesSelectors == {"absent", "shapes", "byParent", "fields", "junk", "types"}

SerSelectors == {"absent", "shapes", "junk"}

\* {"circle": circle_schema, "square": SquareSchema}[t]
ShapeTable(t) ==
    CASE t = "circle" -> Returns(Inst("CircleSchema", "circle1"))
      [] t = "square" -> Returns(Type("SquareSchema"))
      [] OTHER -> Raises("KeyError")

\* self.deserialization_schema_selector(v, data)
DesSelectorCall(sel, v, data) ==
    LET t == IF v.tag = "raw" THEN v.type ELSE "?"
    IN CASE sel = "absent" -> Raises("TypeError")
         [] sel = "shapes" -> ShapeTable(t)
         [] sel = "byParent" ->
              IF data.tag = "parent" THEN ShapeTable(data.type) ELSE Raises("TypeError")
         [] sel = "fields" ->
              (CASE t = "circle" -> Returns(Inst("IntField", "int1"))
                 [] t = "square" -> Returns(Inst("IntField", "int2"))
                 [] OTHER -> Returns(Type("NeedsArgs")))
         [] sel = "junk" ->
              (CASE t = "circle" -> Returns(Inst("Empty", "fresh"))
                 [] t = "square" -> Returns(Inst("Plain", "fresh"))
                 [] OTHER -> Returns(PyNone))
         [] OTHER ->
              (CASE t = "circle" -> Returns(Type("Empty"))
                 [] t = "square" -> Returns(Type("Plain"))
                 [] OTHER -> Returns(Type("IntField")))

\* self.serialization_schema_selector(v, obj)
SerSelectorCall(sel, v, obj) ==
    LET c == IF v.tag = "obj" THEN v.cls ELSE "?"
    IN CASE sel = "absent" -> Raises("TypeError")
         [] sel = "shapes" ->
              (CASE c = "Circle" -> Returns(Inst("CircleSchema", "circle1"))
                 [] c = "Square" -> Returns(Inst("SquareSchema", "fresh"))
                 [] OTHER -> Raises("KeyError"))
         [] OTHER ->
              (CASE c = "Circle" -> Returns(Type("CircleSchema"))
                 [] c = "Square" -> Returns(Inst("IntField", "int2"))
                 [] OTHER -> Returns(PyNone))

(***************************************************************************)
(* Delegates.  What a delegate does with a value is a function of its      *)
(* class and the value; the host convention decides how it is reported.    *)
(***************************************************************************)
ShapeOf(c) == IF c = "CircleSchema" THEN "circle" ELSE "square"

ClassOf(c) == IF c = "CircleSchema" THEN "Circle" ELSE "Square"

\* the schema's own validation of a raw value
LoadOutcome(c, v) ==
    IF v.tag = "raw" /\ v.type = ShapeOf(c) /\ v.n >= 1
    THEN [ok |-> TRUE, value |-> Obj(ClassOf(c), v.n), errors |-> ""]
    ELSE [ok |-> FALSE, value |-> PyNone, errors |-> "invalid"]

\* the schema's rendering of an object
DumpOutcome(c, v) ==
    IF v.tag = "obj" /\ v.cls = ClassOf(c) /\ v.n >= 1
    THEN [ok |-> TRUE, value |-> Raw(ShapeOf(c), v.n), errors |-> ""]
    ELSE [ok |-> FALSE, value |-> PyPartial, errors |-> "invalid"]

\* schema.load(v) / schema.dump(v) under the host convention: a bare result
\* (failure raises ValidationError) or a (data, errors) pair
UnderConvention(m3, o) ==
    IF m3
    THEN IF o.ok THEN [raised |-> FALSE, ret |-> o.value, exc |-> "", errors |-> ""]
         ELSE [raised |-> TRUE, ret |-> PyNone, exc |-> "ValidationError", errors |-> o.errors]
    ELSE [raised |-> FALSE, ret |-> Pair(o.value, o.errors), exc |-> "", errors |-> ""]

SchemaLoad(m3, c, v) == UnderConvention(m3, LoadOutcome(c, v))

SchemaDump(m3, c, v) == UnderConvention(m3, DumpOutcome(c, v))

\* field.deserialize(v, attr, data): raises ValidationError or returns the value
FieldDeserialize(c, v, data) ==
    IF v.tag = "raw" /\ v.n >= 1
    THEN [raised |-> FALSE, ret |-> Obj("Int", v.n), exc |-> "", errors |-> ""]
    ELSE [raised |-> TRUE, ret |-> PyNone, exc |-> "ValidationError", errors |-> "invalid"]

(***************************************************************************)
(* The trace of a call: one event per selector call and per delegate call  *)
(***************************************************************************)
\* the selector was called (or the call was attempted) with (v, parent)
SelectEvent(v, parent, call) ==
    [ev |-> "select", v |-> v, parent |-> parent, obj |-> call.ret,
     raised |-> call.raised, before |-> NoContext, ctx |-> NoContext, out |-> PyNone]

\* delegate d's load / deserialize / dump was called with v (and parent);
\* before and ctx are d's context before the merge and at the call
DelegateEvent(how, v, parent, d, before, ctx, r) ==
    [ev |-> how, v |-> v, parent |-> parent, obj |-> d,
     raised |-> r.raised, before |-> before, ctx |-> ctx, out |-> r.ret]

NoError == [kind |-> "", value |-> PyNone, class_type |-> "", errors |-> "", cause |-> ""]

\* lines 59-67: the message names the value and the class
SelectionError(v, class_type) ==
    [kind |-> "ValidationError", value |-> v, class_type |-> class_type,
     errors |-> "", cause |-> ""]

\* line 82, and a ValidationError raised by the delegate itself
NestedError(errors) ==
    [kind |-> "ValidationError", value |-> PyNone, class_type |-> "",
     errors |-> errors, cause |-> ""]

\* lines 118-122: 'Failed to serialize object. Error: {0} ... this value {1}'
SerializationError(err, value) ==
    [kind |-> "TypeError", value |-> value, class_type |-> "", errors |-> "",
     cause |-> err]

(***************************************************************************)
(* PolyField._deserialize                                                  *)
(***************************************************************************)
\* lines 42-43: if not self.many: value = [value]
AsSequence(isMany, value) == IF isMany THEN value.items ELSE <<value>>

IsAnyInstance(d) == d.tag = "inst"

\* line 52: isinstance(deserializer, (Field, Schema))
IsValidDeserializer(d) == IsField(d) \/ IsSchema(d)

\* lines 47-53: what the try block leaves in `deserializer`, and whether it
\* raised.  A class that fails to construct stays in `deserializer`.
Selection(call) ==
    LET ret == call.ret
        isClass == ~call.raised /\ IsType(ret)
        ctorFailed == isClass /\ ~Constructible(ret.cls)
        d == IF isClass /\ ~ctorFailed THEN Inst(ret.cls, "fresh") ELSE ret
    IN [deserializer |-> d,
        failed |-> call.raised \/ ctorFailed \/ ~IsValidDeserializer(d)]

\* lines 55-57: class_type = None; if deserializer: class_type = str(type(deserializer))
ClassType(d) == IF Truthy(d) THEN TypeStr(d) ELSE "None"

UpdateReversed(dst, src) == [k \in Keys |-> IF dst[k] # 0 THEN dst[k] ELSE src[k]]

\* dict.update: dst.update(src)
Update(dst, src) == [k \in Keys |-> IF src[k] # 0 THEN src[k] ELSE dst[k]]

\* getattr(self, 'context', {})
FieldContext(ctx) == IF ctx["self"].has THEN ctx["self"].map ELSE EmptyCtx

MergeIntoField(ctx, d) ==
    LET old == ContextOf(ctx, d)
    IN IF old.has /\ ctx["self"].has
       THEN [ctx EXCEPT !["self"] = HasCtx(Update(ctx["self"].map, old.map))]
       ELSE ctx

\* d.context.update(getattr(self, 'context', {})) on an object that has a
\* context: the contexts of the long-lived objects after the statement
MergeContext(ctx, d) ==
    LET old == ContextOf(ctx, d)
    IN IF old.has /\ d.id \in Owners
       THEN [ctx EXCEPT ![d.id] = HasCtx(Update(old.map, FieldContext(ctx)))]
       ELSE ctx

\* the context delegate d has once the merge is done
MergedContextOf(ctx, d) ==
    LET old == ContextOf(ctx, d)
    IN IF old.has THEN HasCtx(Update(old.map, FieldContext(ctx))) ELSE old

PrependResult(results, data) == <<data>> \o results

\* line 84: results.append(data)
AppendResult(results, data) == Append(results, data)

\* lines 72-82: the delegate call; what it leaves in `data`, or the
\* ValidationError it ends with
Delegate(m3, d, v, data) ==
    IF IsField(d)
    THEN LET r == FieldDeserialize(d.cls, v, data)
         IN [raised |-> r.raised, errors |-> r.errors, data |-> r.ret, call |-> r]
    ELSE LET r == SchemaLoad(m3, d.cls, v)
         IN IF m3
            THEN [raised |-> r.raised, errors |-> r.errors, data |-> r.ret, call |-> r]
            ELSE [raised |-> r.ret.errors # "", errors |-> r.ret.errors,
                  data |-> r.ret.data, call |-> r]

\* lines 47-84: one iteration of the loop over st, the call's local state
DeserializeElement(self, m3, st, v) ==
    LET call == DesSelectorCall(self.deserialization_schema_selector, v, st.data)
        s == Selection(call)
        d == s.deserializer
        log1 == Append(st.log, SelectEvent(v, st.data, call))
    IN IF s.failed
       THEN [st EXCEPT !.status = "raised", !.log = log1,
                       !.err = SelectionError(v, ClassType(d))]
       ELSE LET before == ContextOf(st.context, d)
                ctx1 == MergeContext(st.context, d)
                seen == MergedContextOf(st.context, d)
                r == Delegate(m3, d, v, st.data)
                how == IF IsField(d) THEN "deserialize" ELSE "load"
                log2 == Append(log1, DelegateEvent(how, v, st.data, d, before, seen, r.call))
            IN IF r.raised
               THEN [st EXCEPT !.status = "raised", !.log = log2, !.context = ctx1,
                               !.err = NestedError(r.errors)]
               ELSE [st EXCEPT !.log = log2, !.context = ctx1, !.data = r.data,
                               !.results = AppendResult(st.results, r.data)]

RECURSIVE DeserializeLoop(_, _, _, _, _)
\* line 46: for v in value
DeserializeLoop(self, m3, st, items, i) ==
    IF i > Len(items) \/ st.status # "running" THEN st
    ELSE CHOOSE end \in {DeserializeLoop(self, m3, nxt, items, i + 1) :
                           nxt \in {DeserializeElement(self, m3, st, items[i])}} : TRUE

\* lines 86-90: return results if self.many else results[0]
DeserializeReturn(isMany, results) == IF isMany THEN PyList(results) ELSE results[1]

\* lines 41-90: the outcome of _deserialize(value, attr, data) and the
\* contexts it leaves
Deserialize(self, m3, ctx, value, data) ==
    LET st0 == [status |-> "running", results |-> <<>>, data |-> data,
                context |-> ctx, log |-> <<>>, err |-> NoError]
        st == DeserializeLoop(self, m3, st0, AsSequence(self.many, value), 1)
    IN IF st.status = "running"
       THEN [status |-> "returned", result |-> DeserializeReturn(self.many, st.results),
             err |-> NoError, log |-> st.log, context |-> st.context]
       ELSE [status |-> "raised", result |-> PyNone,
             err |-> st.err, log |-> st.log, context |-> st.context]

(***************************************************************************)
(* PolyField._serialize                                                    *)
(***************************************************************************)
NeverNone(value) == FALSE

\* line 93: value is None
IsNone(value) == value = PyNone

\* line 122: the value the TypeError message is formatted with
ValueNamed(value, v) == value

DumpResultItself(m3, ret) == ret

\* lines 104-107 / 113-116: what is taken from dump's return value
DumpData(m3, ret) == IF m3 THEN ret ELSE ret.data

\* lines 99-107 (many) and 110-116 (single): one element; any exception ends
\* the call in the handler of line 117
SerializeElement(self, m3, st, value, v, obj) ==
    LET call == SerSelectorCall(self.serialization_schema_selector, v, obj)
        schema == call.ret
        log1 == Append(st.log, SelectEvent(v, obj, call))
        before == ContextOf(st.context, schema)
        ctx1 == MergeContext(st.context, schema)
        seen == MergedContextOf(st.context, schema)
    IN IF call.raised
       THEN [st EXCEPT !.status = "raised", !.log = log1,
                       !.err = SerializationError(call.exc, ValueNamed(value, v))]
       ELSE IF ~before.has
       THEN [st EXCEPT !.status = "raised", !.log = log1,
                       !.err = SerializationError("AttributeError", ValueNamed(value, v))]
       ELSE IF ~HasDump(schema)
       THEN [st EXCEPT !.status = "raised", !.log = log1, !.context = ctx1,
                       !.err = SerializationError("AttributeError", ValueNamed(value, v))]
       ELSE LET r == SchemaDump(m3, schema.cls, v)
                log2 == Append(log1, DelegateEvent("dump", v, obj, schema, before, seen, r))
            IN IF r.raised
               THEN [st EXCEPT !.status = "raised", !.log = log2, !.context = ctx1,
                               !.err = SerializationError(r.exc, ValueNamed(value, v))]
               ELSE [st EXCEPT !.log = log2, !.context = ctx1,
                               !.results = Append(st.results, DumpData(m3, r.ret))]

RECURSIVE SerializeLoop(_, _, _, _, _, _, _)
\* line 98: for v in value
SerializeLoop(self, m3, st, value, items, obj, i) ==
    IF i > Len(items) \/ st.status # "running" THEN st
    ELSE CHOOSE end \in {SerializeLoop(self, m3, nxt, value, items, obj, i + 1) :
                           nxt \in {SerializeElement(self, m3, st, value, items[i], obj)}} : TRUE

\* lines 92-122: the outcome of _serialize(value, key, obj) and the contexts
\* it leaves
Serialize(self, m3, ctx, value, obj) ==
    LET st0 == [status |-> "running", results |-> <<>>, data |-> obj,
                context |-> ctx, log |-> <<>>, err |-> NoError]
    IN IF IsNone(value)
       THEN [status |-> "returned", result |-> PyNone, err |-> NoError,
             log |-> <<>>, context |-> ctx]
       ELSE IF self.many /\ value.tag # "list"
       THEN [status |-> "raised", result |-> PyNone,
             err |-> SerializationError("TypeError", value), log |-> <<>>, context |-> ctx]
       ELSE LET st == SerializeLoop(self, m3, st0, value, AsSequence(self.many, value), obj, 1)
            IN IF st.status = "running"
               THEN [status |-> "returned",
                     result |-> IF self.many THEN PyList(st.results) ELSE st.results[1],
                     err |-> NoError, log |-> st.log, context |-> st.context]
               ELSE [status |-> "raised", result |-> PyNone,
                     err |-> st.err, log |-> st.log, context |-> st.context]

(***************************************************************************)
(* The state machine                                                       *)
(***************************************************************************)
\* the field as the calls see it
Self ==
    [many |-> many,
     serialization_schema_selector |-> serialization_schema_selector,
     deserialization_schema_selector |-> deserialization_schema_selector]

FieldContexts == {NoContext, HasCtx([k \in Keys |-> IF k = "k1" THEN 1 ELSE 0])}

\* the contexts the long-lived delegates start with: circle1 already holds
\* k1 and k2, int1 is a standalone field without a context, int2 holds k2
InitialContext(fc) ==
    [o \in Owners |->
        CASE o = "self" -> fc
          [] o = "circle1" -> HasCtx([k \in Keys |-> 2])
          [] o = "int1" -> NoContext
          [] OTHER -> HasCtx([k \in Keys |-> IF k = "k2" THEN 1 ELSE 0])]

NoCall ==
    [op |-> "none", value |-> PyNone, parent |-> PyNone, status |-> "", result |-> PyNone,
     mid |-> PyNone, err |-> NoError, log |-> <<>>, before |-> InitialContext(NoContext)]

\* PolyField.__init__ (lines 36-39), the module flag (lines 5-10) and the
\* contexts the host framework and the integrator have set up
Init ==
    /\ many \in BOOLEAN
    /\ serialization_schema_selector \in SerSelectors
    /\ deserialization_schema_selector \in DesSelectors
    /\ MARSHMALLOW_3 \in BOOLEAN
    /\ \E fc \in FieldContexts :
          /\ context = InitialContext(fc)
          /\ constructed = [many |-> many,
                            serialization_schema_selector |-> serialization_schema_selector,
                            deserialization_schema_selector |-> deserialization_schema_selector,
                            context |-> fc]
    /\ pc = "idle"
    /\ last = NoCall

\* the values a caller passes: one element, or a list when many is set
ValuesOver(S) == IF many THEN {PyList(s) : s \in SeqsUpTo(S, MaxLen)} ELSE S

\* field._deserialize(value, attr, data)
DeserializeCall ==
    /\ pc = "idle"
    /\ \E value \in ValuesOver(Raws), data \in ParentData :
          \E out \in {Deserialize(Self, MARSHMALLOW_3, context, value, data)} :
             /\ context' = out.context
             /\ last' = [op |-> "deserialize", value |-> value, parent |-> data,
                         status |-> out.status, result |-> out.result, mid |-> PyNone,
                         err |-> out.err, log |-> out.log, before |-> context]
    /\ pc' = "returned"
    /\ UNCHANGED <<many, serialization_schema_selector, deserialization_schema_selector,
                   MARSHMALLOW_3, constructed>>

\* field._serialize(value, key, obj)
SerializeCall ==
    /\ pc = "idle"
    /\ \E value \in ValuesOver(Objs) \cup {PyNone} :
          \E out \in {Serialize(Self, MARSHMALLOW_3, context, value, ParentObj)} :
             /\ context' = out.context
             /\ last' = [op |-> "serialize", value |-> value, parent |-> ParentObj,
                         status |-> out.status, result |-> out.result, mid |-> PyNone,
                         err |-> out.err, log |-> out.log, before |-> context]
    /\ pc' = "returned"
    /\ UNCHANGED <<many, serialization_schema_selector, deserialization_schema_selector,
                   MARSHMALLOW_3, constructed>>

\* field._deserialize(field._serialize(value, key, obj), attr, data): the
\* caller's composition of the two calls.  (A singleton set binds a name to a
\* value that is computed once.)
RoundTripOf(ser, des) ==
    [status |-> des.status, result |-> des.result, mid |-> ser.result,
     err |-> des.err, log |-> ser.log \o des.log, context |-> des.context]

RoundTripFrom(self, m3, ser, data) ==
    IF ser.status = "returned"
    THEN CHOOSE r \in {RoundTripOf(ser, des) :
                         des \in {Deserialize(self, m3, ser.context, ser.result, data)}} : TRUE
    ELSE [status |-> ser.status, result |-> ser.result, mid |-> ser.result,
          err |-> ser.err, log |-> ser.log, context |-> ser.context]

RoundTrip(self, m3, ctx, value, obj, data) ==
    CHOOSE r \in {RoundTripFrom(self, m3, ser, data) :
                    ser \in {Serialize(self, m3, ctx, value, obj)}} : TRUE

RoundTripCall ==
    /\ pc = "idle"
    /\ \E value \in ValuesOver(Objs), data \in ParentData :
          \E out \in {RoundTrip(Self, MARSHMALLOW_3, context, value, ParentObj, data)} :
             /\ context' = out.context
             /\ last' = [op |-> "roundtrip", value |-> value, parent |-> data,
                         status |-> out.status, result |-> out.result, mid |-> out.mid,
                         err |-> out.err, log |-> out.log, before |-> context]
    /\ pc' = "returned"
    /\ UNCHANGED <<many, serialization_schema_selector, deserialization_schema_selector,
                   MARSHMALLOW_3, constructed>>

\* the caller has taken the outcome; the field is ready for the next call
Return ==
    /\ pc = "returned"
    /\ pc' = "idle"
    /\ last' = NoCall
    /\ UNCHANGED <<many, serialization_schema_selector, deserialization_schema_selector,
                   MARSHMALLOW_3, context, constructed>>

Next == DeserializeCall \/ SerializeCall \/ RoundTripCall \/ Return

Spec == Init /\ [][Next]_vars

(***************************************************************************)
(* Vocabulary of the properties                                            *)
(***************************************************************************)
\* the elements of the value the last call was given
LastItems == IF last.value.tag = "list" THEN last.value.items ELSE <<last.value>>

IsSelect(e) == e.ev = "select"

IsDelegation(e) == e.ev \in {"load", "deserialize", "dump"}

\* what the selector's return value is once a bare class is instantiated
Resolved(h) == IF IsType(h) /\ Constructible(h.cls) THEN Inst(h.cls, "fresh") ELSE h

\* the selector call of event e is a selection failure
SelectionFails(e) ==
    \/ e.raised
    \/ (IsType(e.obj) /\ ~Constructible(e.obj.cls))
    \/ ~(IsField(Resolved(e.obj)) \/ IsSchema(Resolved(e.obj)))

\* the delegate of event e accepts the element, and what it makes of it
Accepts(e) ==
    IF e.ev = "deserialize" THEN ~FieldDeserialize(e.obj.cls, e.v, e.parent).raised
    ELSE LoadOutcome(e.obj.cls, e.v).ok

ResultOf(e) ==
    IF e.ev = "deserialize" THEN FieldDeserialize(e.obj.cls, e.v, e.parent).ret
    ELSE LoadOutcome(e.obj.cls, e.v).value

\* the index of the last selector call of the trace (0 when there is none)
LastSelect(log) ==
    IF \E i \in DOMAIN log : IsSelect(log[i])
    THEN CHOOSE i \in DOMAIN log :
            IsSelect(log[i]) /\ \A j \in DOMAIN log : IsSelect(log[j]) => j <= i
    ELSE 0

\* the field's own state
FieldState ==
    [many |-> many,
     serialization_schema_selector |-> serialization_schema_selector,
     deserialization_schema_selector |-> deserialization_schema_selector,
     context |-> context["self"]]

\* the last call made again with the same arguments in state ctx under
\* convention m3
Again(m3, ctx) ==
    CASE last.op = "deserialize" -> Deserialize(Self, m3, ctx, last.value, last.parent)
      [] last.op = "serialize" -> Serialize(Self, m3, ctx, last.value, last.parent)
      [] OTHER -> RoundTrip(Self, m3, ctx, last.value, ParentObj, last.parent)

\* what the selectors and delegates were called with and what they saw
Observed(log) ==
    [i \in DOMAIN log |->
        [ev |-> log[i].ev, v |-> log[i].v, parent |-> log[i].parent, obj |-> log[i].obj,
         raised |-> log[i].raised, ctx |-> log[i].ctx, out |-> log[i].out]]

\* what the caller can tell of an outcome
Outcome(o) ==
    [status |-> o.status, result |-> o.result, kind |-> o.err.kind,
     errors |-> o.err.errors, value |-> o.err.value]

(***************************************************************************)
(* C1                                                                      *)
(***************************************************************************)
\* C1: a _deserialize call in which every selector call gave a valid delegate
\* and every delegate accepted its element returns; the trace then holds, per
\* input element and in input order, one selector call and one call of the
\* delegate chosen for that element, and the output is the delegates'
\* results in that order: a list of the input's length when many is set, the
\* single result itself, outside any list, when it is not.
C1_ElementwiseResults ==
    (/\ pc = "returned"
     /\ last.op = "deserialize"
     /\ \A i \in DOMAIN last.log :
           IF IsSelect(last.log[i]) THEN ~SelectionFails(last.log[i])
           ELSE Accepts(last.log[i]))
    => /\ last.status = "returned"
       /\ Len(last.log) = 2 * Len(LastItems)
       /\ \A i \in DOMAIN LastItems :
             /\ IsSelect(last.log[2 * i - 1])
             /\ last.log[2 * i - 1].v = LastItems[i]
             /\ IsDelegation(last.log[2 * i])
             /\ last.log[2 * i].v = LastItems[i]
             /\ last.log[2 * i].obj = Resolved(last.log[2 * i - 1].obj)
       /\ IF many
          THEN /\ last.result.tag = "list"
               /\ Len(last.result.items) = Len(LastItems)
               /\ \A i \in DOMAIN LastItems :
                     last.result.items[i] = ResultOf(last.log[2 * i])
          ELSE last.result = ResultOf(last.log[2])

\* a many=True call returned two results from delegates of different classes
C1_Witness ==
    /\ pc = "returned"
    /\ last.op = "deserialize"
    /\ last.status = "returned"
    /\ many
    /\ Len(LastItems) = 2
    /\ last.log[2].obj.cls # last.log[4].obj.cls
    /\ last.result.items[1] # last.result.items[2]

(***************************************************************************)
(* C2                                                                      *)
(***************************************************************************)
\* C2: in _deserialize, a selector call that raises (an absent selector
\* included), returns a class that does not construct, or returns what is
\* neither a Schema nor a Field instance ends the call with a
\* ValidationError naming the element; it is the last event of the trace (no
\* delegate is called for the element) and nothing is returned.
C2_SelectionFailureRaises ==
    (pc = "returned" /\ last.op = "deserialize")
    => \A i \in DOMAIN last.log :
          (IsSelect(last.log[i]) /\ SelectionFails(last.log[i]))
          => /\ last.status = "raised"
             /\ last.err.kind = "ValidationError"
             /\ last.err.value = last.log[i].v
             /\ i = Len(last.log)
             /\ last.result = PyNone

\* the second element of a list got a class that does not construct, after
\* the first one was delegated
C2_Witness ==
    /\ pc = "returned"
    /\ last.op = "deserialize"
    /\ Len(LastItems) = 2
    /\ Len(last.log) = 3
    /\ ~last.log[3].raised
    /\ IsType(last.log[3].obj)
    /\ last.status = "raised"
    /\ last.err.value = LastItems[2]

(***************************************************************************)
(* C3                                                                      *)
(***************************************************************************)
\* C3: _serialize(None) returns None without any selector call (and without
\* touching any context), whatever many and the serialization selector are.
C3_NoneShortCircuits ==
    (pc = "returned" /\ last.op = "serialize" /\ last.value = PyNone)
    => /\ last.status = "returned"
       /\ last.result = PyNone
       /\ last.log = <<>>
       /\ context = last.before

\* None was serialized by a many=True field that has no serialization selector
C3_Witness ==
    /\ pc = "returned"
    /\ last.op = "serialize"
    /\ last.value = PyNone
    /\ last.result = PyNone
    /\ many
    /\ serialization_schema_selector = "absent"

(***************************************************************************)
(* C4                                                                      *)
(***************************************************************************)
\* the context delegate event e saw holds every key of the field's context fc
\* with the field's value, and the delegate's other keys as they were
SawFieldContext(e, fc) ==
    \A k \in Keys :
        IF fc[k] # 0
        THEN e.ctx.has /\ e.ctx.map[k] = fc[k]
        ELSE e.ctx.map[k] = e.before.map[k]

\* C4 as stated: at every load / deserialize / dump call the delegate's
\* context holds the field's keys with the field's values and keeps its other
\* keys.
C4_AsStated ==
    pc = "returned"
    => \A i \in DOMAIN last.log :
          IsDelegation(last.log[i])
          => SawFieldContext(last.log[i], FieldContext(last.before))

\* C4, amended: at every load / deserialize / dump call of a delegate that
\* has a context attribute, the delegate's context holds the field's keys
\* with the field's values and keeps its other keys (the merge precedes the
\* call); on the serialization path every delegate that is called has one, on
\* the deserialization path a delegate without one is called unmerged.
C4_MergedBeforeDelegation ==
    pc = "returned"
    => \A i \in DOMAIN last.log :
          IsDelegation(last.log[i])
          => /\ last.log[i].before.has => SawFieldContext(last.log[i], FieldContext(last.before))
             /\ last.log[i].ev = "dump" => last.log[i].before.has
             /\ ~last.log[i].before.has => ~last.log[i].ctx.has

\* on a round trip, dump and then load of a schema that held k1 and k2 of
\* its own both saw the field's k1 and the schema's k2
C4_Witness ==
    /\ pc = "returned"
    /\ last.op = "roundtrip"
    /\ last.status = "returned"
    /\ FieldContext(last.before)["k1"] = 1
    /\ \E i, j \in DOMAIN last.log :
          /\ last.log[i].ev = "dump"
          /\ last.log[j].ev = "load"
          /\ last.log[i].before.map["k1"] = 2
          /\ \A e \in {last.log[i], last.log[j]} :
                /\ e.ctx.map["k1"] = 1
                /\ e.ctx.map["k2"] = 2

(***************************************************************************)
(* C5                                                                      *)
(***************************************************************************)
\* C5: a _serialize call of a value other than None that fails while
\* processing an element ends with a TypeError that carries the original
\* error and names that element, and returns nothing.
C5_TypeErrorNamesElement ==
    (pc = "returned" /\ last.op = "serialize" /\ last.status = "raised")
    => /\ last.err.kind = "TypeError"
       /\ last.err.cause # ""
       /\ last.result = PyNone
       /\ LastSelect(last.log) # 0
       /\ last.err.value = last.log[LastSelect(last.log)].v

(***************************************************************************)
(* C6                                                                      *)
(***************************************************************************)
\* C6: a call has the same outcome for its caller (the value returned, or
\* the kind of error and the errors it carries) under both host conventions.
C6_SameUnderBothConventions ==
    (pc = "returned" /\ last.op \in {"serialize", "deserialize"})
    => Outcome(Again(TRUE, last.before)) = Outcome(Again(FALSE, last.before))

(***************************************************************************)
(* C7                                                                      *)
(***************************************************************************)
\* whatever may reach a selector as the enclosing data
AnyData == ParentData \cup Objs \cup {ParentObj}

\* the two selectors agree on the schema for object v and that schema's load
\* inverts its dump
AgreeOn(v) ==
    LET s == SerSelectorCall(serialization_schema_selector, v, ParentObj)
    IN /\ ~s.raised
       /\ IsSchema(s.ret)
       /\ DumpOutcome(s.ret.cls, v).ok
       /\ \A q \in AnyData :
             LET raw == DumpOutcome(s.ret.cls, v).value
                 d == DesSelectorCall(deserialization_schema_selector, raw, q)
             IN /\ ~d.raised
                /\ IsSchema(Resolved(d.ret))
                /\ Resolved(d.ret).cls = s.ret.cls
                /\ LoadOutcome(s.ret.cls, raw).ok
                /\ LoadOutcome(s.ret.cls, raw).value = v

C8_FieldStateUntouched ==
    /\ FieldState = constructed
    /\ pc = "returned"
       => /\ \A o \in Owners :
                context[o] # last.before[o]
                => \E i \in DOMAIN last.log :
                      IsSelect(last.log[i]) /\ last.log[i].obj = Inst(last.log[i].obj.cls, o)
          /\ LET again == Again(MARSHMALLOW_3, context)
             IN /\ Outcome(again) = Outcome([status |-> last.status, result |-> last.result,
                                             err |-> last.err])
                /\ again.err = last.err
                /\ Observed(again.log) = Observed(last.log)
                /\ again.context = context

\* a call has written a delegate's context while the field has one of its own
C8_Witness ==
    /\ pc = "returned"
    /\ constructed.context.has
    /\ context["circle1"] # last.before["circle1"]
    /\ context["self"] = constructed.context

(***************************************************************************)
(* C9                                                                      *)
(***************************************************************************)
\* C9: within one _deserialize call every selector call and every field
\* delegate call gets the enclosing data the call was given.
C9_EnclosingDataPassed ==
    (pc = "returned" /\ last.op = "deserialize")
    => \A i \in DOMAIN last.log :
          last.log[i].ev \in {"select", "deserialize"}
          => last.log[i].parent = last.parent

(***************************************************************************)
(* C10                                                                     *)
(***************************************************************************)
\* C10: the ValidationError of a selection failure names the element, and
\* reports the delegate type as none exactly when the selector produced
\* nothing (it raised, was absent, or returned None).
C10_NoneOnlyWhenNothingSelected ==
    (/\ pc = "returned"
     /\ last.op = "deserialize"
     /\ last.log # <<>>
     /\ IsSelect(last.log[Len(last.log)])
     /\ SelectionFails(last.log[Len(last.log)]))
    => LET e == last.log[Len(last.log)]
       IN /\ last.err.value = e.v
          /\ last.err.class_type = "None" <=> (e.raised \/ e.obj = PyNone)

====
